---- MODULE Spec2Model ----
(***************************************************************************)
(* Driver for the TSL2561 / TSL4531 ambient-light sensors                  *)
(* (cayenne_tsl/__init__.py): base device, gain/time codec, lux            *)
(* calculator.                                                             *)
(*                                                                         *)
(* Numbers.  Python ints are integers.  A Python float that the driver     *)
(* builds by scaling (time_multiplier, gain_multiplier, the scaled         *)
(* channel values, the channel ratio) is modelled as the exact rational    *)
(* <<numerator, denominator>> in lowest terms.  A lux value is modelled    *)
(* in fixed point, in units of 1/LuxUnit lux, each product truncated;      *)
(* channel_ratio**1.4 is computed in units of 1/PowUnit.                   *)
(***************************************************************************)
EXTENDS Integers, Sequences, FiniteSets, TLC

VARIABLES chip, pc, control, config, time_multiplier, gain_multiplier,
          LUX_VALUE, call, last_time, last_gain, has_reading

vars == <<chip, pc, control, config, time_multiplier, gain_multiplier,
          LUX_VALUE, call, last_time, last_gain, has_reading>>

-----------------------------------------------------------------------------
(* Bytes: Python's &, |, ~ and << on register bytes.                       *)

RECURSIVE BitAnd(_, _)
BitAnd(a, b) ==
    IF a = 0 \/ b = 0 THEN 0
    ELSE (a % 2) * (b % 2) + 2 * BitAnd(a \div 2, b \div 2)

RECURSIVE BitOr(_, _)
BitOr(a, b) ==
    IF a = 0 THEN b
    ELSE IF b = 0 THEN a
    ELSE (IF a % 2 = 1 \/ b % 2 = 1 THEN 1 ELSE 0) + 2 * BitOr(a \div 2, b \div 2)

\* byte & ~mask, for a register byte 0..255 and a mask 0..255
AndNot(byte, mask) == BitAnd(byte, 255 - mask)

Word_BigEndian(bytes) == BitOr(bytes[1] * 256, bytes[2])

\* bytes[1] << 8 | bytes[0]: Python indexes from 0, a sequence here from 1
Word(bytes) == BitOr(bytes[2] * 256, bytes[1])

-----------------------------------------------------------------------------
(* Register addresses and values (class attributes).                       *)

VAL_COMMAND == 128
REG_CONTROL == BitOr(0, VAL_COMMAND)
REG_CONFIG == BitOr(1, VAL_COMMAND)
VAL_PWON == 3
VAL_PWOFF == 0
VAL_INVALID == -1

VAL_TIME_402_MS == 2
VAL_TIME_101_MS == 1
VAL_TIME_14_MS == 0
REG_CHANNEL_0_LOW == BitOr(12, VAL_COMMAND)
REG_CHANNEL_1_LOW == BitOr(14, VAL_COMMAND)
MASK_GAIN == 16
MASK_TIME == 3

VAL_TIME_400_MS == 0
VAL_TIME_200_MS == 1
VAL_TIME_100_MS == 2
REG_DATA_LOW == BitOr(4, VAL_COMMAND)
MASK_TCNTRL == 3

-----------------------------------------------------------------------------
(* Arithmetic on the modelled floats.                                      *)

LuxUnit == 10 ^ 3
PowUnit == 10 ^ 8
PowHalf == 10 ^ 4

RECURSIVE GCD(_, _)
GCD(a, b) == IF b = 0 THEN a ELSE GCD(b, a % b)

\* the rational n/d in lowest terms, d > 0
Rat(n, d) == LET g == GCD(n, d) IN IF g = 0 THEN <<0, 1>> ELSE <<n \div g, d \div g>>

\* a * b
RMul(a, b) ==
    LET g1 == GCD(a[1], b[2])
        g2 == GCD(b[1], a[2])
        h1 == IF g1 = 0 THEN 1 ELSE g1
        h2 == IF g2 = 0 THEN 1 ELSE g2
    IN  Rat((a[1] \div h1) * (b[1] \div h2), (a[2] \div h2) * (b[2] \div h1))

\* a / b, b # 0
RDiv(a, b) == RMul(a, <<b[2], b[1]>>)

\* a <= n/d
RLeq(a, n, d) == a[1] * d <= n * a[2]

\* <<quotient, remainder>> of r * b by d, for 0 <= r < d, without forming r * b
RECURSIVE MulDivQR(_, _, _)
MulDivQR(r, b, d) ==
    IF b = 0 THEN <<0, 0>>
    ELSE LET h == MulDivQR(r, b \div 2, d)
             t == 2 * h[2] + (IF b % 2 = 1 THEN r ELSE 0)
         IN  <<2 * h[1] + t \div d, t % d>>

\* floor(a * b / d), a, b >= 0, d > 0
MulDiv(a, b, d) == (a \div d) * b + MulDivQR(a % d, b, d)[1]

\* coefficient k/10^5 times the channel value c, in units of 1/LuxUnit
Coef(k, c) == MulDiv(c[1], k, (10 ^ 5 \div LuxUnit) * c[2])

\* floor(x * y / PowUnit), by halves of PowHalf = sqrt(PowUnit) digits
PMul(x, y) ==
    LET x1 == x \div PowHalf
        x0 == x % PowHalf
        y1 == y \div PowHalf
        y0 == y % PowHalf
    IN  x1 * y1 + (x1 * y0 + x0 * y1 + (x0 * y0) \div PowHalf) \div PowHalf

Pow5(y) == PMul(PMul(PMul(y, y), PMul(y, y)), y)

\* the largest y in lo..hi with y^5 <= x (units of 1/PowUnit)
RECURSIVE Root5(_, _, _)
Root5(lo, hi, x) ==
    IF lo >= hi THEN lo
    ELSE LET mid == (lo + hi + 1) \div 2
         IN  IF Pow5(mid) <= x THEN Root5(mid, hi, x) ELSE Root5(lo, mid - 1, x)

\* channel_ratio ** 1.4 = r * (r^2)^(1/5), for 0 <= r <= 1, in units of 1/PowUnit
Pow14(r) ==
    LET x == MulDiv(PowUnit, r[1], r[2])
    IN  PMul(x, Root5(0, PowUnit, PMul(x, x)))

\* '{0:.1f}'.format(v): v >= 0 rounded to one decimal, ties to even
Round1(v) ==
    LET step == LuxUnit \div 10
        q == v \div step
        rem == v % step
    IN  step * (IF 2 * rem > step \/ (2 * rem = step /\ q % 2 = 1) THEN q + 1 ELSE q)

-----------------------------------------------------------------------------
(* Lux calculator.                                                         *)

\* CalculateLuxCS with the first band's upper boundary excluded
CalculateLuxCS_StrictBoundary(channel0_value, channel1_value) ==
    IF channel0_value[1] = 0 THEN VAL_INVALID * LuxUnit
    ELSE LET channel_ratio == RDiv(channel1_value, channel0_value)
         IN  IF RLeq(<<0, 1>>, channel_ratio[1], channel_ratio[2])
                /\ RLeq(channel_ratio, 52, 100) /\ channel_ratio # <<13, 25>>
             THEN Coef(3150, channel0_value)
                  - PMul(Coef(5930, channel0_value), Pow14(channel_ratio))
             ELSE IF ~RLeq(channel_ratio, 52, 100) /\ RLeq(channel_ratio, 65, 100)
             THEN Coef(2290, channel0_value) - Coef(2910, channel1_value)
             ELSE IF ~RLeq(channel_ratio, 65, 100) /\ RLeq(channel_ratio, 80, 100)
             THEN Coef(1570, channel0_value) - Coef(1800, channel1_value)
             ELSE IF ~RLeq(channel_ratio, 80, 100) /\ RLeq(channel_ratio, 130, 100)
             THEN Coef(338, channel0_value) - Coef(260, channel1_value)
             ELSE 0

\* TSL2561CS._calculate_lux
CalculateLuxCS(channel0_value, channel1_value) ==
    IF channel0_value[1] = 0 THEN VAL_INVALID * LuxUnit
    ELSE LET channel_ratio == RDiv(channel1_value, channel0_value)
         IN  IF RLeq(<<0, 1>>, channel_ratio[1], channel_ratio[2])
                /\ RLeq(channel_ratio, 52, 100)
             THEN Coef(3150, channel0_value)
                  - PMul(Coef(5930, channel0_value), Pow14(channel_ratio))
             ELSE IF ~RLeq(channel_ratio, 52, 100) /\ RLeq(channel_ratio, 65, 100)
             THEN Coef(2290, channel0_value) - Coef(2910, channel1_value)
             ELSE IF ~RLeq(channel_ratio, 65, 100) /\ RLeq(channel_ratio, 80, 100)
             THEN Coef(1570, channel0_value) - Coef(1800, channel1_value)
             ELSE IF ~RLeq(channel_ratio, 80, 100) /\ RLeq(channel_ratio, 130, 100)
             THEN Coef(338, channel0_value) - Coef(260, channel1_value)
             ELSE 0

\* CalculateLuxT with the robustness check also on channel 1
CalculateLuxT_GuardBoth(channel0_value, channel1_value) ==
    IF channel0_value[1] = 0 \/ channel1_value[1] = 0 THEN VAL_INVALID * LuxUnit
    ELSE LET channel_ratio == RDiv(channel1_value, channel0_value)
         IN  IF RLeq(<<0, 1>>, channel_ratio[1], channel_ratio[2])
                /\ RLeq(channel_ratio, 50, 100)
             THEN Coef(3040, channel0_value)
                  - PMul(Coef(6200, channel0_value), Pow14(channel_ratio))
             ELSE IF ~RLeq(channel_ratio, 50, 100) /\ RLeq(channel_ratio, 61, 100)
             THEN Coef(2240, channel0_value) - Coef(3100, channel1_value)
             ELSE IF ~RLeq(channel_ratio, 61, 100) /\ RLeq(channel_ratio, 80, 100)
             THEN Coef(1280, channel0_value) - Coef(1530, channel1_value)
             ELSE IF ~RLeq(channel_ratio, 80, 100) /\ RLeq(channel_ratio, 130, 100)
             THEN Coef(146, channel0_value) - Coef(112, channel1_value)
             ELSE 0

\* TSL2561T._calculate_lux (inherited by TSL2561 and TSL2561Test)
CalculateLuxT(channel0_value, channel1_value) ==
    IF channel0_value[1] = 0 THEN VAL_INVALID * LuxUnit
    ELSE LET channel_ratio == RDiv(channel1_value, channel0_value)
         IN  IF RLeq(<<0, 1>>, channel_ratio[1], channel_ratio[2])
                /\ RLeq(channel_ratio, 50, 100)
             THEN Coef(3040, channel0_value)
                  - PMul(Coef(6200, channel0_value), Pow14(channel_ratio))
             ELSE IF ~RLeq(channel_ratio, 50, 100) /\ RLeq(channel_ratio, 61, 100)
             THEN Coef(2240, channel0_value) - Coef(3100, channel1_value)
             ELSE IF ~RLeq(channel_ratio, 61, 100) /\ RLeq(channel_ratio, 80, 100)
             THEN Coef(1280, channel0_value) - Coef(1530, channel1_value)
             ELSE IF ~RLeq(channel_ratio, 80, 100) /\ RLeq(channel_ratio, 130, 100)
             THEN Coef(146, channel0_value) - Coef(112, channel1_value)
             ELSE 0

\* self._calculate_lux: the method the device's class resolves to
_calculate_lux(c, channel0_value, channel1_value) ==
    IF c = "TSL2561CS" THEN CalculateLuxCS(channel0_value, channel1_value)
    ELSE CalculateLuxT(channel0_value, channel1_value)

-----------------------------------------------------------------------------
(* The device handle and the bus.                                          *)
(*                                                                         *)
(* A method is an operator from the handle before the call to the handle   *)
(* after it.  The handle carries, besides the object's attributes and the  *)
(* chip's two registers, the call's outcome: raised, ret, the bus          *)
(* operations it attempted (log) and, for get_lux, the values passed to    *)
(* the formula (c0, c1) and the formula's result (value).  failAt = k > 0  *)
(* makes the k-th bus operation of the call raise (a transport failure of  *)
(* I2C, propagated); a failed operation transfers nothing.  The log keeps  *)
(* the byte of a write; what a read returned is in rd or in the call's     *)
(* argument.                                                               *)

Chips == {"TSL2561CS", "TSL2561T", "TSL4531"}
Is2561(c) == c \in {"TSL2561CS", "TSL2561T"}

\* an attribute that has not been assigned
NoAttr == <<0, 0>>

Self(failAt) ==
    [control |-> control, config |-> config,
     time_multiplier |-> time_multiplier, gain_multiplier |-> gain_multiplier,
     LUX_VALUE |-> LUX_VALUE,
     raised |-> "none", ret |-> 0, rd |-> 0, log |-> <<>>, failAt |-> failAt,
     c0 |-> NoAttr, c1 |-> NoAttr, value |-> 0]

Attempt(s, kind, addr, val, ok) ==
    Append(s.log, [k |-> kind, reg |-> addr, val |-> val, ok |-> ok])

BusFails(s) == Len(s.log) + 1 = s.failAt

\* I2C.readRegister
readRegister(s, addr) ==
    IF s.raised # "none" THEN s
    ELSE IF BusFails(s)
    THEN [s EXCEPT !.raised = "IOError", !.log = Attempt(s, "R", addr, <<>>, FALSE)]
    ELSE [s EXCEPT !.rd = IF addr = REG_CONTROL THEN s.control ELSE s.config,
                   !.log = Attempt(s, "R", addr, <<>>, TRUE)]

\* I2C.readRegisters: the chip answers with the bytes of its data registers
readRegisters(s, addr, bytes) ==
    IF s.raised # "none" THEN s
    ELSE IF BusFails(s)
    THEN [s EXCEPT !.raised = "IOError", !.log = Attempt(s, "R", addr, <<>>, FALSE)]
    ELSE [s EXCEPT !.log = Attempt(s, "R", addr, <<>>, TRUE)]

\* I2C.writeRegister
writeRegister(s, addr, value) ==
    IF s.raised # "none" THEN s
    ELSE IF BusFails(s)
    THEN [s EXCEPT !.raised = "IOError", !.log = Attempt(s, "W", addr, <<value>>, FALSE)]
    ELSE IF addr = REG_CONTROL
    THEN [s EXCEPT !.control = value, !.log = Attempt(s, "W", addr, <<value>>, TRUE)]
    ELSE [s EXCEPT !.config = value, !.log = Attempt(s, "W", addr, <<value>>, TRUE)]

-----------------------------------------------------------------------------
(* Base device.                                                            *)

\* TSL_LIGHT_X.wake
wake(s) == IF s.raised # "none" THEN s ELSE writeRegister(s, REG_CONTROL, VAL_PWON)

\* TSL_LIGHT_X.sleep
sleep(s) == IF s.raised # "none" THEN s ELSE writeRegister(s, REG_CONTROL, VAL_PWOFF)

-----------------------------------------------------------------------------
(* Gain/time codec.                                                        *)

\* set_gain writing the gain byte without the other bits of the register
set_gain_Overwrite(s, gain) ==
    IF s.raised # "none" THEN s
    ELSE IF gain # 1 /\ gain # 16 THEN [s EXCEPT !.raised = "ValueError"]
    ELSE LET bit_gain == IF gain = 1 THEN 0 ELSE 1
             s1 == [s EXCEPT !.gain_multiplier = IF gain = 1 THEN <<16, 1>> ELSE <<1, 1>>]
             new_byte_gain == BitAnd(bit_gain * 16, MASK_GAIN)
             s2 == readRegister(s1, REG_CONFIG)
         IN  writeRegister(s2, REG_CONFIG, new_byte_gain)

\* TSL2561X.set_gain
set_gain(s, gain) ==
    IF s.raised # "none" THEN s
    ELSE IF gain # 1 /\ gain # 16 THEN [s EXCEPT !.raised = "ValueError"]
    ELSE LET bit_gain == IF gain = 1 THEN 0 ELSE 1
             s1 == [s EXCEPT !.gain_multiplier = IF gain = 1 THEN <<16, 1>> ELSE <<1, 1>>]
             new_byte_gain == BitAnd(bit_gain * 16, MASK_GAIN)
             s2 == readRegister(s1, REG_CONFIG)
             new_byte_config == BitOr(AndNot(s2.rd, MASK_GAIN), new_byte_gain)
         IN  writeRegister(s2, REG_CONFIG, new_byte_config)

\* TSL2561X.get_gain
get_gain(s) ==
    LET s1 == readRegister(s, REG_CONFIG)
    IN  IF s1.raised # "none" THEN s1
        ELSE [s1 EXCEPT !.ret = IF BitAnd(s1.rd, MASK_GAIN) # 0 THEN 16 ELSE 1]

\* _set_time OR-ing the new time bits into the register without clearing the old
TSL2561X_set_time_NoClear(s, time) ==
    IF s.raised # "none" THEN s
    ELSE IF time \notin {14, 101, 402} THEN [s EXCEPT !.raised = "ValueError"]
    ELSE LET bits_time == IF time = 402 THEN VAL_TIME_402_MS
                          ELSE IF time = 101 THEN VAL_TIME_101_MS
                          ELSE VAL_TIME_14_MS
             mult == IF time = 402 THEN <<1, 1>>
                     ELSE IF time = 101 THEN Rat(322, 81)
                     ELSE Rat(322, 11)
             s1 == [s EXCEPT !.time_multiplier = mult]
             new_byte_time == BitAnd(bits_time, MASK_TIME)
             s2 == readRegister(s1, REG_CONFIG)
             new_byte_config == BitOr(s2.rd, new_byte_time)
         IN  writeRegister(s2, REG_CONFIG, new_byte_config)

\* TSL2561X._set_time
TSL2561X_set_time(s, time) ==
    IF s.raised # "none" THEN s
    ELSE IF time \notin {14, 101, 402} THEN [s EXCEPT !.raised = "ValueError"]
    ELSE LET bits_time == IF time = 402 THEN VAL_TIME_402_MS
                          ELSE IF time = 101 THEN VAL_TIME_101_MS
                          ELSE VAL_TIME_14_MS
             mult == IF time = 402 THEN <<1, 1>>
                     ELSE IF time = 101 THEN Rat(322, 81)
                     ELSE Rat(322, 11)
             s1 == [s EXCEPT !.time_multiplier = mult]
             new_byte_time == BitAnd(bits_time, MASK_TIME)
             s2 == readRegister(s1, REG_CONFIG)
             new_byte_config == BitOr(AndNot(s2.rd, MASK_TIME), new_byte_time)
         IN  writeRegister(s2, REG_CONFIG, new_byte_config)

\* the decoding with no branch for an undefined pattern
TSL2561X_decode_time_NoElse(current_byte_config) ==
    LET bits_time == BitAnd(current_byte_config, MASK_TIME)
    IN  IF bits_time = VAL_TIME_402_MS THEN 402
        ELSE IF bits_time = VAL_TIME_101_MS THEN 101
        ELSE 14

\* the decoding of TSL2561X._get_time
TSL2561X_decode_time(current_byte_config) ==
    LET bits_time == BitAnd(current_byte_config, MASK_TIME)
    IN  IF bits_time = VAL_TIME_402_MS THEN 402
        ELSE IF bits_time = VAL_TIME_101_MS THEN 101
        ELSE IF bits_time = VAL_TIME_14_MS THEN 14
        ELSE VAL_INVALID

\* _set_time checking its argument only after reading the register
TSL4531_set_time_LateCheck(s, time) ==
    IF s.raised # "none" THEN s
    ELSE LET s2 == readRegister(s, REG_CONFIG)
         IN  IF s2.raised # "none" THEN s2
             ELSE IF time \notin {100, 200, 400} THEN [s2 EXCEPT !.raised = "ValueError"]
             ELSE LET bits_time == IF time = 400 THEN VAL_TIME_400_MS
                                   ELSE IF time = 200 THEN VAL_TIME_200_MS
                                   ELSE VAL_TIME_100_MS
                      mult == IF time = 400 THEN <<1, 1>>
                              ELSE IF time = 200 THEN <<2, 1>>
                              ELSE <<4, 1>>
                      s3 == [s2 EXCEPT !.time_multiplier = mult]
                      new_byte_time == BitAnd(bits_time, MASK_TCNTRL)
                      new_byte_config == BitOr(AndNot(s3.rd, MASK_TCNTRL), new_byte_time)
                  IN  writeRegister(s3, REG_CONFIG, new_byte_config)

\* TSL4531._set_time
TSL4531_set_time(s, time) ==
    IF s.raised # "none" THEN s
    ELSE IF time \notin {100, 200, 400} THEN [s EXCEPT !.raised = "ValueError"]
    ELSE LET bits_time == IF time = 400 THEN VAL_TIME_400_MS
                          ELSE IF time = 200 THEN VAL_TIME_200_MS
                          ELSE VAL_TIME_100_MS
             mult == IF time = 400 THEN <<1, 1>>
                     ELSE IF time = 200 THEN <<2, 1>>
                     ELSE <<4, 1>>
             s1 == [s EXCEPT !.time_multiplier = mult]
             new_byte_time == BitAnd(bits_time, MASK_TCNTRL)
             s2 == readRegister(s1, REG_CONFIG)
             new_byte_config == BitOr(AndNot(s2.rd, MASK_TCNTRL), new_byte_time)
         IN  writeRegister(s2, REG_CONFIG, new_byte_config)

\* the decoding of TSL4531._get_time
TSL4531_decode_time(current_byte_config) ==
    LET bits_time == BitAnd(current_byte_config, MASK_TCNTRL)
    IN  IF bits_time = VAL_TIME_400_MS THEN 400
        ELSE IF bits_time = VAL_TIME_200_MS THEN 200
        ELSE IF bits_time = VAL_TIME_100_MS THEN 100
        ELSE VAL_INVALID

\* self._set_time: the method the device's class resolves to
_set_time(c, s, time) ==
    IF Is2561(c) THEN TSL2561X_set_time(s, time) ELSE TSL4531_set_time(s, time)

\* self._get_time
_get_time(c, s) ==
    LET s1 == readRegister(s, REG_CONFIG)
    IN  IF s1.raised # "none" THEN s1
        ELSE [s1 EXCEPT !.ret = IF Is2561(c) THEN TSL2561X_decode_time(s1.rd)
                                 ELSE TSL4531_decode_time(s1.rd)]

\* TSL_LIGHT_X.set_time
set_time(c, s, time) == _set_time(c, s, time)

\* TSL_LIGHT_X.get_time
get_time(c, s) == _get_time(c, s)

-----------------------------------------------------------------------------
(* Readings.                                                               *)

\* get_lux storing the computed value whatever it is
TSL2561X_get_lux_NoGuard(c, s, ch0_bytes, ch1_bytes) ==
    LET s1 == readRegisters(s, REG_CHANNEL_0_LOW, ch0_bytes)
        s2 == readRegisters(s1, REG_CHANNEL_1_LOW, ch1_bytes)
        ch0_word == Word(ch0_bytes)
        ch1_word == Word(ch1_bytes)
        scaling == RMul(s.time_multiplier, s.gain_multiplier)
        c0 == RMul(scaling, <<ch0_word, 1>>)
        c1 == RMul(scaling, <<ch1_word, 1>>)
        value == _calculate_lux(c, c0, c1)
    IN  IF s2.raised # "none" THEN s2
        ELSE [s2 EXCEPT !.c0 = c0, !.c1 = c1, !.value = value,
                        !.LUX_VALUE = value, !.ret = Round1(value)]

\* TSL2561X.get_lux; ch0_bytes, ch1_bytes are what the chip's data registers hold
TSL2561X_get_lux(c, s, ch0_bytes, ch1_bytes) ==
    LET s1 == readRegisters(s, REG_CHANNEL_0_LOW, ch0_bytes)
        s2 == readRegisters(s1, REG_CHANNEL_1_LOW, ch1_bytes)
        ch0_word == Word(ch0_bytes)
        ch1_word == Word(ch1_bytes)
        scaling == RMul(s.time_multiplier, s.gain_multiplier)
        c0 == RMul(scaling, <<ch0_word, 1>>)
        c1 == RMul(scaling, <<ch1_word, 1>>)
        value == _calculate_lux(c, c0, c1)
        lux == IF value # VAL_INVALID * LuxUnit THEN value ELSE s.LUX_VALUE
    IN  IF s2.raised # "none" THEN s2
        ELSE [s2 EXCEPT !.c0 = c0, !.c1 = c1, !.value = value,
                        !.LUX_VALUE = lux, !.ret = Round1(lux)]

\* TSL4531.get_lux
TSL4531_get_lux(s, data_bytes) ==
    LET s1 == readRegisters(s, REG_DATA_LOW, data_bytes)
        lux == RMul(s.time_multiplier, <<Word(data_bytes), 1>>)
    IN  IF s1.raised # "none" THEN s1
        ELSE [s1 EXCEPT !.ret = MulDiv(lux[1], LuxUnit, lux[2])]

\* self.get_lux
get_lux(c, s, ch0_bytes, ch1_bytes) ==
    IF Is2561(c) THEN TSL2561X_get_lux(c, s, ch0_bytes, ch1_bytes)
    ELSE TSL4531_get_lux(s, ch0_bytes)

-----------------------------------------------------------------------------
(* Construction.                                                           *)

\* __init__ setting the time before waking the device
TSL_LIGHT_X_init_TimeFirst(c, s, time) == wake(set_time(c, s, time))

\* TSL_LIGHT_X.__init__
TSL_LIGHT_X_init(c, s, time) == set_time(c, wake(s), time)

\* TSL2561X.__init__ / TSL4531.__init__
__init__(c, s, time, gain) ==
    IF Is2561(c) THEN set_gain(TSL_LIGHT_X_init(c, s, time), gain)
    ELSE TSL_LIGHT_X_init(c, s, time)

-----------------------------------------------------------------------------
(* Inputs.                                                                 *)

\* failAt for a call that makes at most n bus operations: 0 is no failure
Faults(n) == 0..n
Times == {0, 14, 101, 402, 100, 200, 400}
Gains == {1, 2, 16}
ConfigBytes == {0, 255}
\* <<ch0_bytes, ch1_bytes>>: channel-0 and channel-1 data registers, low byte first;
\* the first is what TSL2561Test holds
Readings == { <<<<92, 11>>, <<215, 2>>>>, <<<<0, 0>>, <<215, 2>>>>, <<<<10, 0>>, <<14, 0>>>> }

-----------------------------------------------------------------------------
(* The state machine: one action per call on the handle.                   *)

NoCall == [op |-> "none", arg |-> <<>>, raised |-> "none", ret |-> 0, log |-> <<>>,
           c0 |-> NoAttr, c1 |-> NoAttr, value |-> 0]

Init ==
    /\ chip \in Chips
    /\ pc = "new"
    /\ control = VAL_PWOFF
    /\ config \in ConfigBytes
    /\ time_multiplier = NoAttr
    /\ gain_multiplier = NoAttr
    /\ LUX_VALUE = 0
    /\ call = NoCall
    /\ last_time = 0
    /\ last_gain = 0
    /\ has_reading = FALSE

\* the handle and the registers after the call, and the call's record
Commit(op, arg, r) ==
    /\ control' = r.control
    /\ config' = r.config
    /\ time_multiplier' = r.time_multiplier
    /\ gain_multiplier' = r.gain_multiplier
    /\ LUX_VALUE' = r.LUX_VALUE
    /\ call' = [op |-> op, arg |-> arg, raised |-> r.raised, ret |-> r.ret, log |-> r.log,
                c0 |-> r.c0, c1 |-> r.c1, value |-> r.value]
    /\ chip' = chip

Construct ==
    /\ pc = "new"
    /\ \E time \in Times, gain \in Gains, f \in Faults(5) :
         \E r \in {__init__(chip, Self(f), time, gain)} :
             /\ Commit("__init__", <<time, gain>>, r)
             /\ pc' = IF r.raised = "none" THEN "ready" ELSE "failed"
             /\ last_time' = IF r.raised = "none" THEN time ELSE last_time
             /\ last_gain' = IF r.raised = "none" /\ Is2561(chip) THEN gain ELSE last_gain
             /\ UNCHANGED has_reading

Wake ==
    /\ pc = "ready"
    /\ \E f \in Faults(1) :
         \E r \in {wake(Self(f))} :
             /\ Commit("wake", <<>>, r)
             /\ UNCHANGED <<pc, last_time, last_gain, has_reading>>

Sleep ==
    /\ pc = "ready"
    /\ \E f \in Faults(1) :
         \E r \in {sleep(Self(f))} :
             /\ Commit("sleep", <<>>, r)
             /\ UNCHANGED <<pc, last_time, last_gain, has_reading>>

SetTime ==
    /\ pc = "ready"
    /\ \E time \in Times, f \in Faults(2) :
         \E r \in {set_time(chip, Self(f), time)} :
             /\ Commit("set_time", <<time>>, r)
             /\ last_time' = IF r.raised = "none" THEN time ELSE last_time
             /\ UNCHANGED <<pc, last_gain, has_reading>>

GetTime ==
    /\ pc = "ready"
    /\ \E f \in Faults(1) :
         \E r \in {get_time(chip, Self(f))} :
             /\ Commit("get_time", <<>>, r)
             /\ UNCHANGED <<pc, last_time, last_gain, has_reading>>

SetGain ==
    /\ pc = "ready"
    /\ Is2561(chip)
    /\ \E gain \in Gains, f \in Faults(2) :
         \E r \in {set_gain(Self(f), gain)} :
             /\ Commit("set_gain", <<gain>>, r)
             /\ last_gain' = IF r.raised = "none" THEN gain ELSE last_gain
             /\ UNCHANGED <<pc, last_time, has_reading>>

GetGain ==
    /\ pc = "ready"
    /\ Is2561(chip)
    /\ \E f \in Faults(1) :
         \E r \in {get_gain(Self(f))} :
             /\ Commit("get_gain", <<>>, r)
             /\ UNCHANGED <<pc, last_time, last_gain, has_reading>>

GetLux ==
    /\ pc = "ready"
    /\ \E rdg \in Readings, f \in Faults(2) :
         \E r \in {get_lux(chip, Self(f), rdg[1], rdg[2])} :
             /\ Commit("get_lux", rdg[1] \o rdg[2], r)
             /\ has_reading' = (has_reading \/ (Is2561(chip) /\ r.raised = "none"
                                                /\ r.value # VAL_INVALID * LuxUnit))
             /\ UNCHANGED <<pc, last_time, last_gain>>

Next ==
    \/ Construct
    \/ Wake
    \/ Sleep
    \/ SetTime
    \/ GetTime
    \/ SetGain
    \/ GetGain
    \/ GetLux

Spec == Init /\ [][Next]_vars

-----------------------------------------------------------------------------
(* The codec on a constructed device whose configuration register holds    *)
(* any byte (the register can be changed behind the driver's back).        *)

InitCodec ==
    /\ chip \in Chips
    /\ pc = "ready"
    /\ control = VAL_PWON
    /\ config \in 0..255
    /\ time_multiplier = <<1, 1>>
    /\ gain_multiplier = (IF Is2561(chip) THEN <<16, 1>> ELSE NoAttr)
    /\ LUX_VALUE = 0
    /\ call = NoCall
    /\ last_time = (IF Is2561(chip) THEN 402 ELSE 400)
    /\ last_gain = (IF Is2561(chip) THEN 1 ELSE 0)
    /\ has_reading = FALSE

NextCodec ==
    \/ SetTime
    \/ GetTime
    \/ SetGain
    \/ GetGain

SpecCodec == InitCodec /\ [][NextCodec]_vars

-----------------------------------------------------------------------------
(* The lux calculator as a function of its two arguments.                  *)

MaxC0Steps == 4
MaxC1 == 135
CalcC0 == {25 * k : k \in 0..MaxC0Steps}
CalcScales == {<<1, 1>>, Rat(322 * 16, 81)}

InitCalc ==
    /\ chip \in {"TSL2561CS", "TSL2561T"}
    /\ pc = "calc"
    /\ control = VAL_PWOFF
    /\ config = 0
    /\ time_multiplier = NoAttr
    /\ gain_multiplier = NoAttr
    /\ LUX_VALUE = 0
    /\ call \in {[NoCall EXCEPT !.op = "args", !.c0 = RMul(k, <<a, 1>>), !.c1 = RMul(k, <<b, 1>>)] :
                   a \in CalcC0, b \in 0..MaxC1, k \in CalcScales}
    /\ last_time = 0
    /\ last_gain = 0
    /\ has_reading = FALSE

CalculateLux ==
    /\ pc = "calc"
    /\ call.op = "args"
    /\ call' = [call EXCEPT !.op = "_calculate_lux",
                            !.value = _calculate_lux(chip, call.c0, call.c1)]
    /\ UNCHANGED <<chip, pc, control, config, time_multiplier, gain_multiplier,
                   LUX_VALUE, last_time, last_gain, has_reading>>

NextCalc == CalculateLux

SpecCalc == InitCalc /\ [][NextCalc]_vars

-----------------------------------------------------------------------------
(* Properties.                                                             *)

Sentinel == VAL_INVALID * LuxUnit
Done(op) == call.op = op /\ call.raised = "none"
Ch0Word(arg) == Word(<<arg[1], arg[2]>>)
TestBytes == <<92, 11, 215, 2>>
Formula(c) == IF c = "TSL2561CS" THEN "CS" ELSE "T"

\* the multipliers the specification documents for a configuration byte
DocTimeMultiplier(c, byte) ==
    LET b == BitAnd(byte, 3)
    IN  IF Is2561(c)
        THEN (IF b = 2 THEN <<1, 1>> ELSE IF b = 1 THEN <<322, 81>>
              ELSE IF b = 0 THEN <<322, 11>> ELSE NoAttr)
        ELSE (IF b = 0 THEN <<1, 1>> ELSE IF b = 1 THEN <<2, 1>>
              ELSE IF b = 2 THEN <<4, 1>> ELSE NoAttr)
DocGainMultiplier(byte) == IF BitAnd(byte, 16) = 16 THEN <<1, 1>> ELSE <<16, 1>>

\* the integration time the specification documents for a configuration byte
DocTime(c, byte) ==
    LET b == BitAnd(byte, 3)
    IN  IF b = 3 THEN -1
        ELSE IF Is2561(c) THEN (IF b = 2 THEN 402 ELSE IF b = 1 THEN 101 ELSE 14)
        ELSE (IF b = 0 THEN 400 ELSE IF b = 1 THEN 200 ELSE 100)
SupportedTimes(c) == IF Is2561(c) THEN {14, 101, 402} ELSE {100, 200, 400}
\* the time bits the specification documents for a supported time
DocTimeBits(c, t) ==
    IF Is2561(c) THEN (IF t = 402 THEN 2 ELSE IF t = 101 THEN 1 ELSE 0)
    ELSE (IF t = 400 THEN 0 ELSE IF t = 200 THEN 1 ELSE 2)

\* the specification's band tables: upper boundaries in hundredths, and
\* each band's formula in units of 1/LuxUnit
BandUpper(f) == IF f = "CS" THEN <<52, 65, 80, 130>> ELSE <<50, 61, 80, 130>>
Band(f, r) ==
    IF RLeq(r, BandUpper(f)[1], 100) THEN 1
    ELSE IF RLeq(r, BandUpper(f)[2], 100) THEN 2
    ELSE IF RLeq(r, BandUpper(f)[3], 100) THEN 3
    ELSE IF RLeq(r, BandUpper(f)[4], 100) THEN 4
    ELSE 5
BandLux(f, k, c0, c1) ==
    IF f = "CS"
    THEN (IF k = 1 THEN Coef(3150, c0) - PMul(Coef(5930, c0), Pow14(RDiv(c1, c0)))
          ELSE IF k = 2 THEN Coef(2290, c0) - Coef(2910, c1)
          ELSE IF k = 3 THEN Coef(1570, c0) - Coef(1800, c1)
          ELSE IF k = 4 THEN Coef(338, c0) - Coef(260, c1)
          ELSE 0)
    ELSE (IF k = 1 THEN Coef(3040, c0) - PMul(Coef(6200, c0), Pow14(RDiv(c1, c0)))
          ELSE IF k = 2 THEN Coef(2240, c0) - Coef(3100, c1)
          ELSE IF k = 3 THEN Coef(1280, c0) - Coef(1530, c1)
          ELSE IF k = 4 THEN Coef(146, c0) - Coef(112, c1)
          ELSE 0)

(* C1: on a constructed device, whatever calls were made and however they  *)
(* ended, time_multiplier and gain_multiplier are the multipliers          *)
(* documented for the time and gain bits of the configuration register.    *)
C1_MultipliersMatchConfig ==
    pc = "ready" =>
        /\ time_multiplier = DocTimeMultiplier(chip, config)
        /\ Is2561(chip) => gain_multiplier = DocGainMultiplier(config)

(* C2: after a set_time(t) that returned, get_time() returns t; after a    *)
(* set_gain(g) that returned, get_gain() returns g; whatever byte the      *)
(* configuration register held before.                                     *)
C2_RoundTrip ==
    /\ Done("set_time") =>
          /\ call.arg[1] \in SupportedTimes(chip)
          /\ get_time(chip, Self(0)).raised = "none"
          /\ get_time(chip, Self(0)).ret = call.arg[1]
    /\ Done("set_gain") =>
          /\ call.arg[1] \in {1, 16}
          /\ get_gain(Self(0)).raised = "none"
          /\ get_gain(Self(0)).ret = call.arg[1]

C2_Witness ==
    /\ chip = "TSL4531"
    /\ Done("set_time")
    /\ call.arg = <<100>>
    /\ config = 254
    /\ get_time(chip, Self(0)).ret = 100

(* C3 as stated: once a reading has been stored, a get_lux whose channel 0 *)
(* reads 0 returns the cached value, which is not zero and not the         *)
(* sentinel, and leaves the cache as it was.                               *)
C3_StaleValueNotZero ==
    [][ (/\ call'.op = "get_lux" /\ call'.raised = "none" /\ Is2561(chip)
         /\ Ch0Word(call'.arg) = 0 /\ has_reading)
        => (/\ call'.ret = Round1(LUX_VALUE)
            /\ LUX_VALUE' = LUX_VALUE
            /\ call'.ret # 0
            /\ call'.ret # Sentinel) ]_vars

(* C3 amended: once a reading has been stored, a get_lux whose channel 0   *)
(* reads 0 returns the cached value rounded to one decimal (zero exactly   *)
(* when the cached value rounds to zero), never the sentinel, and leaves   *)
(* the cache as it was; the cache changes only in a get_lux whose computed *)
(* value is not the sentinel, and then to that value.                      *)
C3_StaleValueRetained ==
    [][ /\ (/\ call'.op = "get_lux" /\ call'.raised = "none" /\ Is2561(chip)
            /\ Ch0Word(call'.arg) = 0 /\ has_reading)
           => (/\ call'.ret = Round1(LUX_VALUE)
               /\ LUX_VALUE' = LUX_VALUE
               /\ call'.ret # Sentinel)
        /\ LUX_VALUE' # LUX_VALUE
           => (/\ call'.op = "get_lux" /\ call'.raised = "none"
               /\ call'.value # Sentinel
               /\ LUX_VALUE' = call'.value) ]_vars

C3_Witness ==
    /\ chip = "TSL2561T"
    /\ Done("get_lux")
    /\ Ch0Word(call.arg) = 0
    /\ call.value = Sentinel
    /\ has_reading
    /\ LUX_VALUE = 1000240
    /\ call.ret = 1000200

(* C4: a set_time with a time the package does not support, and a set_gain *)
(* with a gain other than 1 and 16, raise ValueError, attempt no bus       *)
(* operation and leave the registers and both multipliers as they were; a  *)
(* constructor stopped by such a set_time has not touched the              *)
(* configuration register.                                                 *)
C4_InvalidArgument ==
    [][ /\ ((call'.op = "set_time" /\ call'.arg[1] \notin SupportedTimes(chip))
            \/ (call'.op = "set_gain" /\ call'.arg[1] \notin {1, 16}))
           => (/\ call'.raised = "ValueError"
               /\ call'.log = <<>>
               /\ config' = config /\ control' = control
               /\ time_multiplier' = time_multiplier
               /\ gain_multiplier' = gain_multiplier)
        /\ ((call'.op = "set_time" \/ call'.op = "set_gain") /\ call'.raised = "ValueError")
           => ((call'.op = "set_time" /\ call'.arg[1] \notin SupportedTimes(chip))
               \/ (call'.op = "set_gain" /\ call'.arg[1] \notin {1, 16}))
        /\ (call'.op = "__init__" /\ call'.arg[1] \notin SupportedTimes(chip)
            /\ call'.raised # "IOError")
           => (/\ call'.raised = "ValueError"
               /\ config' = config
               /\ time_multiplier' = time_multiplier
               /\ \A i \in 1..Len(call'.log) : call'.log[i].reg # REG_CONFIG) ]_vars

C4_Witness ==
    /\ chip = "TSL2561CS"
    /\ call.op = "set_time"
    /\ call.arg = <<100>>
    /\ call.raised = "ValueError"
    /\ call.log = <<>>
    /\ time_multiplier = <<322, 81>>
    /\ config = 237

(* C5: with any byte in the configuration register, get_time raises        *)
(* nothing of its own (only a failed bus read is propagated) and returns   *)
(* -1 when the time bits are 0x03, else the documented time.               *)
C5_GetTimeTotal ==
    call.op = "get_time" =>
        /\ call.raised \in {"none", "IOError"}
        /\ call.raised = "IOError" => ~call.log[Len(call.log)].ok
        /\ call.raised = "none" => call.ret = DocTime(chip, config)

C5_Witness ==
    /\ Done("get_time")
    /\ config = 171
    /\ call.ret = VAL_INVALID

(* C6: for both formulas the calculation returns the sentinel when         *)
(* channel 0 is 0, whatever channel 1 is, and a value other than the       *)
(* sentinel when channel 0 is not 0.                                       *)
C6_SentinelIffChannel0Zero ==
    call.op = "_calculate_lux" => (call.value = Sentinel <=> call.c0[1] = 0)

C6_Witness ==
    /\ call.op = "_calculate_lux"
    /\ call.c0[1] = 0
    /\ call.c1[1] > 0
    /\ call.value = Sentinel

(* C7: for channel 0 > 0 the ratio selects one band, each boundary         *)
(* belonging to the band below it, and the result is that band's formula;  *)
(* above 1.30 the result is 0.                                             *)
C7_BandSelection ==
    (call.op = "_calculate_lux" /\ call.c0[1] > 0) =>
        LET r == RDiv(call.c1, call.c0)
            k == Band(Formula(chip), r)
        IN  /\ call.value = BandLux(Formula(chip), k, call.c0, call.c1)
            /\ ~RLeq(r, 130, 100) => call.value = 0

C7_Witness ==
    /\ chip = "TSL2561CS"
    /\ call.op = "_calculate_lux"
    /\ call.c0 = RMul(Rat(322 * 16, 81), <<100, 1>>)
    /\ call.c1 = RMul(Rat(322 * 16, 81), <<52, 1>>)
    /\ call.value = BandLux("CS", 1, call.c0, call.c1)
    /\ call.value # BandLux("CS", 2, call.c0, call.c1)

(* C8 as stated: on any TSL2561-family device with time_multiplier 1 and   *)
(* gain_multiplier 16, a get_lux that reads the bytes 5C 0B / D7 02 passes *)
(* 46528 and 11632 to the formula and reports band 1 of the CS formula.    *)
C8_TestReadingCS ==
    (/\ Is2561(chip) /\ Done("get_lux") /\ call.arg = TestBytes
     /\ time_multiplier = <<1, 1>> /\ gain_multiplier = <<16, 1>>)
    => /\ call.c0 = <<46528, 1>>
       /\ call.c1 = <<11632, 1>>
       /\ RDiv(call.c1, call.c0) = <<1, 4>>
       /\ call.ret = Round1(BandLux("CS", 1, call.c0, call.c1))

(* C8 amended: ... and reports band 1 of the formula of the device's own   *)
(* package: the CS formula (1069.5) on a TSL2561CS, the T formula (1000.2) *)
(* on a TSL2561T, a TSL2561 and the in-memory test device.                 *)
C8_TestReadingOwnFormula ==
    (/\ Is2561(chip) /\ Done("get_lux") /\ call.arg = TestBytes
     /\ time_multiplier = <<1, 1>> /\ gain_multiplier = <<16, 1>>)
    => /\ call.c0 = <<46528, 1>>
       /\ call.c1 = <<11632, 1>>
       /\ RDiv(call.c1, call.c0) = <<1, 4>>
       /\ call.value = BandLux(Formula(chip), 1, call.c0, call.c1)
       /\ call.ret = Round1(call.value)
       /\ call.ret = (IF chip = "TSL2561CS" THEN 1069500 ELSE 1000200)

C8_Witness ==
    /\ chip = "TSL2561T"
    /\ Done("get_lux")
    /\ call.arg = TestBytes
    /\ time_multiplier = <<1, 1>>
    /\ gain_multiplier = <<16, 1>>
    /\ call.c0 = <<46528, 1>>
    /\ call.ret = 1000200

(* C9: the constructor's first bus operation is the write of 0x03 to the   *)
(* control register; the configuration register is accessed only after     *)
(* that write succeeded; then the time is read-modify-written, and on the  *)
(* TSL2561 family the gain is read-modify-written only after the time      *)
(* write succeeded.                                                        *)
C9_InitOrder ==
    call.op = "__init__" =>
        LET L == call.log
        IN  /\ Len(L) >= 1
            /\ L[1].k = "W" /\ L[1].reg = REG_CONTROL /\ L[1].val = <<VAL_PWON>>
            /\ \A i \in 1..Len(L) : L[i].reg = REG_CONFIG => (i > 1 /\ L[1].ok)
            /\ \A i \in 2..Len(L) :
                  /\ L[i].reg = REG_CONFIG
                  /\ L[i].k = (IF i % 2 = 0 THEN "R" ELSE "W")
                  /\ L[i - 1].ok
            /\ Len(L) >= 3 =>
                  BitAnd(L[3].val[1], 3) = BitAnd(DocTimeBits(chip, call.arg[1]), 3)
            /\ Len(L) >= 4 => Is2561(chip)
            /\ Len(L) >= 5 =>
                  /\ BitAnd(L[5].val[1], 16) = (IF call.arg[2] = 16 THEN 16 ELSE 0)
                  /\ BitAnd(L[5].val[1], 3) = BitAnd(L[3].val[1], 3)
            /\ call.raised = "none" => Len(L) = (IF Is2561(chip) THEN 5 ELSE 3)

C9_Witness ==
    /\ chip = "TSL2561CS"
    /\ Done("__init__")
    /\ call.arg = <<101, 16>>
    /\ Len(call.log) = 5
    /\ call.log[5].val = <<253>>
    /\ control = VAL_PWON

(* C10: a set_time that returned changed only the bits under mask 0x03 and *)
(* a set_gain that returned only the bit under mask 0x10; wake, sleep,     *)
(* get_lux, get_time and get_gain do not write the configuration register; *)
(* get_time returns the time of the last set_time that returned and        *)
(* get_gain the gain of the last set_gain that returned.                   *)
C10_IndependentFields ==
    [][ /\ (call'.op = "set_time" /\ call'.raised = "none")
           => (/\ AndNot(config', 3) = AndNot(config, 3)
               /\ BitAnd(config', 3) = BitAnd(DocTimeBits(chip, call'.arg[1]), 3))
        /\ (call'.op = "set_gain" /\ call'.raised = "none")
           => (/\ AndNot(config', 16) = AndNot(config, 16)
               /\ BitAnd(config', 16) = (IF call'.arg[1] = 16 THEN 16 ELSE 0))
        /\ call'.op \in {"wake", "sleep", "get_lux", "get_time", "get_gain"}
           => (/\ config' = config
               /\ \A i \in 1..Len(call'.log) :
                     ~(call'.log[i].k = "W" /\ call'.log[i].reg = REG_CONFIG))
        /\ (call'.op = "get_time" /\ call'.raised = "none") => call'.ret = last_time
        /\ (call'.op = "get_gain" /\ call'.raised = "none") => call'.ret = last_gain ]_vars

C10_Witness ==
    /\ chip = "TSL2561T"
    /\ Done("get_time")
    /\ call.ret = 101
    /\ last_gain = 16
    /\ config = 253
    /\ control = VAL_PWOFF

====
